---- MODULE Spec2Model ----
(***************************************************************************)
(* Equilibrium / bifurcation core of bifurcaciones_1.py:                   *)
(*   unique_sorted, poly_roots_real, nsolve_roots, find_equilibria,        *)
(*   stability_fx, auto_steps, track_branches,                             *)
(*   BifurcationApp._detect_bifurcation_type,                              *)
(*   BifurcationApp._analyze_bifurcation_at_point and                      *)
(*   BifurcationApp.compute_and_plot.                                      *)
(*                                                                         *)
(* Floats.  A finite Python float is the pair <<u, e>> and stands for      *)
(*      u * 10^-6  +  e * 5 * 10^-11                                       *)
(* (u counts millionths, e counts the numerical noise below a millionth,   *)
(* in steps of half the clamp threshold 1e-10).  Roots carry |e| <= a few  *)
(* steps and a midpoint of two samples e = 10000 (half a millionth), so    *)
(* |e| <= 10000 (20000 steps are 10^-6) and the lexicographic order of the *)
(* pairs is the order of the floats.  NaN is the empty tuple.              *)
(*                                                                         *)
(* Python lists are sequences; Python's index k is the model's k + 1.      *)
(***************************************************************************)
EXTENDS Integers, Sequences, FiniteSets

VARIABLES
    pc,             \* position of the running operation
    Rs,             \* track_branches / sweep: the sample grid
    roots_list,     \* per sample, the list of roots
    stabs_list,     \* per sample, the list of stability labels
    branches,       \* track_branches: list of {'x','stab'[,'r']}
    t,              \* track_branches: loop index of line 109
    prev_vals,      \* track_branches: prev_vals of the last pass (line 110)
    pairs,          \* track_branches: pairs committed in the last pass, in order
    fx_expr,        \* stability_fx: the derivative expression
    x_star,         \* stability_fx: the root
    r_val,          \* stability_fx / find_equilibria: the parameter value
    f_expr,         \* find_equilibria / detection: the expression f(x, r)
    x_min,          \* the search window
    x_max,
    i,              \* _detect_bifurcation_type: loop index of line 545
    bifurcations,   \* _detect_bifurcation_type: the events found so far
    result,         \* what the running operation returned or raised
    f_str,          \* compute_and_plot: the text of the entry f(x, r)
    r_min,          \* compute_and_plot / auto_steps: the ends of the r range
    r_max,
    r_steps,        \* compute_and_plot: the entry for the step count, <<n>> when
                    \* its text is the whole number n and <<>> when it is not
    last,           \* the results the application keeps (self._last_*)
    err,            \* the error dialog shown, if any
    first,          \* what the first of two identical runs produced
    r_bif,          \* _analyze_bifurcation_at_point: its arguments r_bif,
    r_before,       \* r_before
    r_after         \* and r_after

trackVars == <<Rs, roots_list, stabs_list, branches, t, prev_vals, pairs>>
stabVars == <<fx_expr, x_star>>
findVars == <<f_expr, x_min, x_max>>
detectVars == <<i, bifurcations>>
sweepVars == <<f_str, r_min, r_max, r_steps, last, err, first>>
analyzeVars == <<r_bif, r_before, r_after>>
vars == <<pc, Rs, roots_list, stabs_list, branches, t, prev_vals, pairs, fx_expr,
          x_star, r_val, f_expr, x_min, x_max, i, bifurcations, result, f_str,
          r_min, r_max, r_steps, last, err, first, r_bif, r_before, r_after>>

\* values of the variables an operation does not use
NoTrack ==
    /\ Rs = <<>> /\ roots_list = <<>> /\ stabs_list = <<>> /\ branches = <<>> /\ t = 0
    /\ prev_vals = <<>> /\ pairs = <<>>
NoStab == fx_expr = "" /\ x_star = <<>>
NoDetect == i = 0 /\ bifurcations = <<>>
NoFind == f_expr = [form |-> "", a |-> <<>>, b |-> <<>>] /\ x_min = <<>> /\ x_max = <<>>
NoSweep ==
    /\ f_str = "" /\ r_min = <<>> /\ r_max = <<>> /\ r_steps = <<>>
    /\ last = <<>> /\ err = <<>> /\ first = <<>>
NoAnalyze == r_bif = <<>> /\ r_before = <<>> /\ r_after = <<>>

(* ------------------------------ bounds -------------------------------- *)
MaxT == 3           \* at most this many samples in a tracked sweep
MaxVal == 2         \* tracked roots are drawn from 0 .. MaxVal (in units)
MaxX == 2           \* stability_fx is evaluated at whole x*, r in -MaxX .. MaxX
GridSlack == 3      \* swept grids have TestSteps - GridSlack .. TestSteps samples
MaxNoise == 1       \* zeros near 0 and 1e-4 carry up to MaxNoise * 5e-11 of noise
MaxRoots == 4       \* a factor of the switch form has at most this many roots

(* ------------------------------ floats -------------------------------- *)
NaN == <<>>
F(u) == <<u, 0>>
IsNaN(a) == a = NaN
FLt(a, b) == a[1] < b[1] \/ (a[1] = b[1] /\ a[2] < b[2])
FLe(a, b) == a = b \/ FLt(a, b)
FSub(a, b) == <<a[1] - b[1], a[2] - b[2]>>
FAbs(a) == IF FLt(a, F(0)) THEN <<0 - a[1], 0 - a[2]>> ELSE a
\* abs(a - b) of floats: NaN as soon as one operand is NaN
FAbsDiff(a, b) == IF IsNaN(a) \/ IsNaN(b) THEN NaN ELSE FAbs(FSub(a, b))
\* 1.0 in millionths
Unit == 10^6
\* float('inf'), float('-inf')
PosInf == <<"inf">>
NegInf == <<"-inf">>
\* np.isfinite
IsFinite(a) == Len(a) = 2
\* floor of the square root, for 0 <= n < 2^31
RECURSIVE Bisect(_, _, _)
Bisect(n, lo, hi) ==
    IF hi - lo <= 1 THEN lo
    ELSE LET mid == (lo + hi) \div 2
         IN IF mid * mid <= n THEN Bisect(n, mid, hi) ELSE Bisect(n, lo, mid)
ISqrt(n) == Bisect(n, 0, 46341)

(* ------------------------------ lists --------------------------------- *)
\* list.pop(k): the list without its k-th element
Pop(s, k) == [n \in 1 .. Len(s) - 1 |-> IF n < k THEN s[n] ELSE s[n + 1]]
\* [v] * n
Repeat(v, n) == [k \in 1 .. n |-> v]
Last(s) == s[Len(s)]
Min2(a, b) == IF a < b THEN a ELSE b

(* --------------------------- track_branches ---------------------------- *)
\* Inputs of the tracking runs: ascending duplicate-free root lists, as
\* find_equilibria returns them, and one label per root.
TrackVals == 0 .. MaxVal
RECURSIVE Ascending(_)
Ascending(S) ==
    IF S = {} THEN <<>>
    ELSE LET m == CHOOSE v \in S : \A w \in S : v <= w
         IN <<F(m)>> \o Ascending(S \ {m})
RootLists == {Ascending(S) : S \in SUBSET TrackVals}
\* the labels of sample k: stable and unstable alternate along the root list
\* (as the signs of f_x do at simple roots) and from one sample to the next
LabelsFor(roots, k) ==
    [j \in 1 .. Len(roots) |-> IF (j + k) % 2 = 0 THEN "estable" ELSE "inestable"]

\* line 110: prev_vals = [b['x'][-1] if len(b['x'])==t else np.nan ...]
PrevVals(bs, tt) ==
    [k \in 1 .. Len(bs) |-> IF Len(bs[k].x) = tt THEN Last(bs[k].x) ELSE NaN]

\* lines 115-119: D[i, j] = abs(prev_vals[unmatched_prev[i]] - new_roots[unmatched_new[j]]).
\* np.delete of row i_min and column j_min (line 126) keeps D equal to this
\* matrix of the remaining unmatched_prev x unmatched_new.
DEntry(pv, nr, up, un, c) == FAbsDiff(pv[up[c[1]]], nr[un[c[2]]])
DCells(up, un) == (1 .. Len(up)) \X (1 .. Len(un))
\* row-major (flattened) order of two cells of D
FlatBefore(c, d) == c[1] < d[1] \/ (c[1] = d[1] /\ c[2] < d[2])
\* line 120 reading np.isfinite(D).all() (a mutant of AnyFinite)
AllFinite(pv, nr, up, un) ==
    \A c \in DCells(up, un) : ~IsNaN(DEntry(pv, nr, up, un, c))
\* line 120: np.isfinite(D).any()
AnyFinite(pv, nr, up, un) ==
    \E c \in DCells(up, un) : ~IsNaN(DEntry(pv, nr, up, un, c))
\* line 121: np.unravel_index(np.argmin(D), D.shape).  np.argmin returns the
\* flattened index of the first NaN when D holds a NaN, and otherwise of the
\* first occurrence of the minimum.
ArgMin(pv, nr, up, un) ==
    LET cells == DCells(up, un)
    IN IF \E c \in cells : IsNaN(DEntry(pv, nr, up, un, c))
       THEN CHOOSE c \in cells :
               /\ IsNaN(DEntry(pv, nr, up, un, c))
               /\ \A d \in cells :
                     IsNaN(DEntry(pv, nr, up, un, d)) => ~FlatBefore(d, c)
       ELSE CHOOSE c \in cells :
               \A d \in cells :
                   /\ ~FLt(DEntry(pv, nr, up, un, d), DEntry(pv, nr, up, un, c))
                   /\ DEntry(pv, nr, up, un, d) = DEntry(pv, nr, up, un, c)
                         => ~FlatBefore(d, c)

\* lines 114-128: the greedy matching loop; returns pairs and unmatched_new
RECURSIVE GreedyMatch(_, _, _, _, _)
GreedyMatch(pv, nr, up, un, ps) ==
    IF up # <<>> /\ un # <<>> /\ AnyFinite(pv, nr, up, un)
    THEN LET c == ArgMin(pv, nr, up, un)
         IN GreedyMatch(pv, nr, Pop(up, c[1]), Pop(un, c[2]),
                        Append(ps, <<up[c[1]], un[c[2]]>>))
    ELSE [pairs |-> ps, unmatched_new |-> un]

\* line 134 padding stab with the label instead of None (a mutant of
\* NewBranch)
NewBranchLabelPad(tt, x, s) ==
    [x |-> Repeat(NaN, tt) \o <<x>>, stab |-> Repeat(s, tt) \o <<s>>, r |-> <<>>]
\* line 134, with one NaN too many in front (a mutant of NewBranch)
NewBranchPadOver(tt, x, s) ==
    [x |-> Repeat(NaN, tt + 1) \o <<x>>, stab |-> Repeat("None", tt + 1) \o <<s>>,
     r |-> <<>>]
\* line 134: b = {'x':[np.nan]*t + [new_roots[jn]], 'stab':[None]*t + [new_stab[jn]]}
\* (the key 'r' is absent until line 137: r = <<>>)
NewBranch(tt, x, s) ==
    [x |-> Repeat(NaN, tt) \o <<x>>, stab |-> Repeat("None", tt) \o <<s>>,
     r |-> <<>>]

\* line 132 writing the first new root, not the paired one (a mutant of
\* ExtendBranch)
ExtendBranchFirstRoot(b, k, ps, nr, ns) ==
    IF \E p \in 1 .. Len(ps) : ps[p][1] = k
    THEN [b EXCEPT !.x = Append(@, nr[1]), !.stab = Append(@, ns[1])]
    ELSE [b EXCEPT !.x = Append(@, NaN), !.stab = Append(@, "None")]
\* lines 129-132: every branch gets NaN/None, then the matched ones their root
ExtendBranch(b, k, ps, nr, ns) ==
    IF \E p \in 1 .. Len(ps) : ps[p][1] = k
    THEN LET p == CHOOSE q \in 1 .. Len(ps) : ps[q][1] = k
         IN [b EXCEPT !.x = Append(@, nr[ps[p][2]]),
                      !.stab = Append(@, ns[ps[p][2]])]
    ELSE [b EXCEPT !.x = Append(@, NaN), !.stab = Append(@, "None")]

\* lines 110-128: the matching of one pass, from all branches and all new roots
Matching(bs, tt, nr) ==
    GreedyMatch(PrevVals(bs, tt), nr, [k \in 1 .. Len(bs) |-> k],
                [k \in 1 .. Len(nr) |-> k], <<>>)
\* line 111 without the copy, and the matched roots popped from new_roots:
\* the caller's list loses them (a mutant of CallerRoots)
CallerRootsPopped(rl, tt, un) ==
    [rl EXCEPT ![tt + 1] = [k \in 1 .. Len(un) |-> rl[tt + 1][un[k]]]]
\* line 111: new_roots = roots_list[t][:] is a copy and lines 112-135 only
\* read it; lines 124 pop from the index lists.  The caller's roots_list
\* after a pass is what it was.
CallerRoots(rl, tt, un) == rl

\* lines 133-135 with insert(0, b) for append(b): the new branches come
\* first (a mutant of ApplyMatching)
ApplyMatchingBornFirst(bs, tt, nr, ns, m) ==
    [k \in 1 .. Len(m.unmatched_new) |->
        NewBranch(tt, nr[m.unmatched_new[k]], ns[m.unmatched_new[k]])]
    \o [k \in 1 .. Len(bs) |-> ExtendBranch(bs[k], k, m.pairs, nr, ns)]
\* lines 129-135: the branches after the pass with matching m
ApplyMatching(bs, tt, nr, ns, m) ==
    [k \in 1 .. Len(bs) |-> ExtendBranch(bs[k], k, m.pairs, nr, ns)]
    \o [k \in 1 .. Len(m.unmatched_new) |->
           NewBranch(tt, nr[m.unmatched_new[k]], ns[m.unmatched_new[k]])]
\* lines 110-135: one iteration of the loop over t
TrackIteration(bs, tt, nr, ns) == ApplyMatching(bs, tt, nr, ns, Matching(bs, tt, nr))

\* lines 136-140: b['r'] = list(Rs) and the padding to length T
Finished(b, T) ==
    [x |-> b.x \o Repeat(NaN, IF Len(b.x) < T THEN T - Len(b.x) ELSE 0),
     stab |-> b.stab \o Repeat("None", IF Len(b.x) < T THEN T - Len(b.x) ELSE 0),
     r |-> Rs]

\* track_branches is called with Rs, roots_list and stabs_list of one length
InitTrack ==
    /\ \E T \in 1 .. MaxT :
         /\ Rs = [k \in 1 .. T |-> F(k - 1)]
         /\ roots_list \in [1 .. T -> RootLists]
         /\ stabs_list = [k \in 1 .. T |-> LabelsFor(roots_list[k], k)]
    /\ branches = <<>>
    /\ t = 0
    /\ pc = "track_seed"
    /\ prev_vals = <<>> /\ pairs = <<>>
    /\ NoStab /\ NoFind /\ NoDetect /\ NoSweep /\ NoAnalyze /\ r_val = <<>> /\ result = <<>>

\* lines 105-108
TrackSeed ==
    /\ pc = "track_seed"
    /\ branches' = [k \in 1 .. Min2(Len(roots_list[1]), Len(stabs_list[1])) |->
                       [x |-> <<roots_list[1][k]>>, stab |-> <<stabs_list[1][k]>>,
                        r |-> <<>>]]
    /\ t' = 1
    /\ pc' = "track_loop"
    /\ UNCHANGED <<analyzeVars, Rs, roots_list, stabs_list, prev_vals, pairs, stabVars, findVars,
                   detectVars, sweepVars, r_val, result>>

\* lines 109-135, one pass of the loop body
TrackStep ==
    /\ pc = "track_loop"
    /\ t < Len(Rs)
    /\ \E m \in {Matching(branches, t, roots_list[t + 1])} :
          /\ branches' = ApplyMatching(branches, t, roots_list[t + 1], stabs_list[t + 1], m)
          /\ pairs' = m.pairs
          /\ roots_list' = CallerRoots(roots_list, t, m.unmatched_new)
    /\ prev_vals' = PrevVals(branches, t)
    /\ t' = t + 1
    /\ UNCHANGED <<analyzeVars, pc, Rs, stabs_list, stabVars, findVars, detectVars,
                   sweepVars, r_val, result>>

\* lines 136-141
TrackFinish ==
    /\ pc = "track_loop"
    /\ t >= Len(Rs)
    /\ branches' = [k \in 1 .. Len(branches) |-> Finished(branches[k], Len(Rs))]
    /\ pc' = "track_done"
    /\ UNCHANGED <<analyzeVars, Rs, roots_list, stabs_list, t, prev_vals, pairs, stabVars, findVars,
                   detectVars, sweepVars, r_val, result>>

NextTrack == TrackSeed \/ TrackStep \/ TrackFinish
SpecTrack == InitTrack /\ [][NextTrack]_vars

(* ---------------------------- stability_fx ----------------------------- *)
\* Derivative expressions the classifier is evaluated on.
FxExprs == {"r - 2*x", "1/x", "sqrt(x)", "x/Abs(x)", "exp(1000*x)"}
\* the whole number a float stands for (x*, r are whole in these runs)
Whole(a) == a[1] \div Unit

\* line 92: fx_expr.subs({x_sym: x_star, r_sym: r_val}).evalf(), the SymPy
\* value: a real number, zoo (complex infinity, 1/0), nan (0*zoo), or a
\* number with an imaginary part (square root of a negative).
SympyValue(fx, xs, rv) ==
    CASE fx = "r - 2*x" ->
            [kind |-> "real", v |-> <<rv[1] - 2 * xs[1], rv[2] - 2 * xs[2]>>]
      [] fx = "1/x" ->
            IF Whole(xs) = 0 THEN [kind |-> "zoo", v |-> NaN]
            ELSE [kind |-> "real", v |-> F(((1000 * Unit) \div xs[1]) * 1000)]
      [] fx = "sqrt(x)" ->
            IF Whole(xs) < 0 THEN [kind |-> "complex", v |-> NaN]
            ELSE [kind |-> "real", v |-> F(ISqrt(Whole(xs) * 10^8) * 100)]
      [] fx = "x/Abs(x)" ->
            IF Whole(xs) = 0 THEN [kind |-> "nan", v |-> NaN]
            ELSE [kind |-> "real", v |-> F(IF Whole(xs) < 0 THEN 0 - Unit ELSE Unit)]
      [] fx = "2*x" -> [kind |-> "real", v |-> <<2 * xs[1], 2 * xs[2]>>]
      [] fx = "-2*x" -> [kind |-> "real", v |-> <<0 - 2 * xs[1], 0 - 2 * xs[2]>>]
      [] fx = "r - 3*x**2" ->
            \* x to 1e-4, x**2 to 1e-8
            [kind |-> "real",
             v |-> <<rv[1] - 3 * (((xs[1] \div 100) * (xs[1] \div 100)) \div 100), rv[2]>>]
      [] fx = "exp(1000*x)" ->
            \* e^1000 and above: a Float beyond the double range; e^-1000: below it
            IF Whole(xs) > 0 THEN [kind |-> "huge", v |-> NaN]
            ELSE [kind |-> "real", v |-> F(IF Whole(xs) = 0 THEN Unit ELSE 0)]

\* line 92: float(...).  SymPy converts a real number (a Float out of the
\* double range becomes inf) and nan; zoo and a complex value raise TypeError.
FloatRaises(e) == e.kind \in {"zoo", "complex"}
ToFloat(e) ==
    CASE e.kind = "real" -> e.v
      [] e.kind = "huge" -> PosInf
      [] e.kind = "nan" -> NaN

\* lines 93-97 with the signs exchanged (a mutant of Classify)
ClassifySwapped(val) ==
    IF IsFinite(val)
    THEN IF FLt(val, F(0)) THEN [label |-> "inestable", val |-> val]
         ELSE IF FLt(F(0), val) THEN [label |-> "estable", val |-> val]
         ELSE [label |-> "neutra", val |-> val]
    ELSE [label |-> "desconocida", val |-> NaN]
\* lines 93-97
Classify(val) ==
    IF IsFinite(val)
    THEN IF FLt(val, F(0)) THEN [label |-> "estable", val |-> val]
         ELSE IF FLt(F(0), val) THEN [label |-> "inestable", val |-> val]
         ELSE [label |-> "neutra", val |-> val]
    ELSE [label |-> "desconocida", val |-> NaN]

\* lines 91-97: the returned (label, val), or the exception that leaves the call
stability_fx(fx, xs, rv) ==
    LET e == SympyValue(fx, xs, rv)
    IN IF FloatRaises(e) THEN [raised |-> "TypeError", label |-> "", val |-> NaN]
       ELSE [raised |-> "none", label |-> Classify(ToFloat(e)).label,
             val |-> Classify(ToFloat(e)).val]

InitStab ==
    /\ fx_expr \in FxExprs
    /\ x_star \in {F(k * Unit) : k \in (0 - MaxX) .. MaxX}
    /\ r_val \in {F(k * Unit) : k \in (0 - MaxX) .. MaxX}
    /\ result = <<>>
    /\ pc = "stab_call"
    /\ NoTrack /\ NoFind /\ NoDetect /\ NoSweep /\ NoAnalyze

\* lines 91-97
StabilityCall ==
    /\ pc = "stab_call"
    /\ result' = stability_fx(fx_expr, x_star, r_val)
    /\ pc' = "stab_done"
    /\ UNCHANGED <<analyzeVars, trackVars, stabVars, findVars, detectVars, sweepVars, r_val>>

NextStab == StabilityCall
SpecStab == InitStab /\ [][NextStab]_vars

(* ---------------------------- unique_sorted ---------------------------- *)
\* sorted(vals), line 32
RECURSIVE Insert(_, _)
Insert(s, v) ==
    IF s = <<>> THEN <<v>>
    ELSE IF FLt(v, s[1]) THEN <<v>> \o s
    ELSE <<s[1]>> \o Insert(Tail(s), v)
RECURSIVE Sorted(_)
Sorted(s) == IF s = <<>> THEN <<>> ELSE Insert(Sorted(Tail(s)), s[1])
\* lines 33-36: keep v when out is empty or abs(v - out[-1]) > tol
RECURSIVE KeepApart(_, _, _)
KeepApart(s, out, tol) ==
    IF s = <<>> THEN out
    ELSE KeepApart(Tail(s),
                   IF out = <<>> \/ FLt(tol, FAbsDiff(s[1], Last(out)))
                   THEN Append(out, s[1]) ELSE out,
                   tol)
\* lines 31-37 without the sort of line 32 (a mutant of unique_sorted)
unique_unsorted(vals, tol) == KeepApart(vals, <<>>, tol)
\* lines 31-37
unique_sorted(vals, tol) == KeepApart(Sorted(vals), <<>>, tol)

\* the float literals of lines 56, 58/81, 59, 68/75 and 79
ImagTol == <<0, 20>>          \* 1e-9
ClampTol == <<0, 2>>          \* 1e-10
PolyDedupTol == <<1, 0>>      \* 1e-6
WindowMargin == <<1, 0>>      \* 1e-6
NsolveDedupTol == <<100, 0>>  \* 1e-4
n_seeds == 31
\* lines 58 and 81: 0.0 if abs(x) < 1e-10 else x
Clamp(x) == IF FLt(FAbs(x), ClampTol) THEN F(0) ELSE x
ClampAll(s) == [k \in 1 .. Len(s) |-> Clamp(s[k])]

(* --------------------------- poly_roots_real --------------------------- *)
\* Expressions f(x, r).  The polynomial ones are those of the tests; the last
\* is not polynomial in x and has the zeros a and b.
PolyForms == {"r + x**2", "r*x - x**2", "r*x - x**3", "-x**2 - 1"}
NonPolyForm == "(x - a)*(x - b)*exp(x)"
Poly(form) == [form |-> form, a |-> F(0), b |-> F(0)]
\* A polynomial in x whose constant coefficient is r wherever |r - c| < 1 and
\* r differs from c, and 0*zoo = nan at r = c (the field a holds c).
SingularForm == "r + x**2 + floor(Abs(r - c))/(r - c)"
Singular(c) == [form |-> SingularForm, a |-> c, b |-> F(0)]
\* A polynomial in x with a coefficient that is a symbol other than r.
FreeSymbolForm == "a*x + r"
\* A polynomial in x whose coefficients are all 0 at r = 0.
LinearForm == "r*x"
\* A polynomial in x that is p(x) for r < c and q(x) for r > c, with p and q
\* the monic products of (x - z) over the roots z listed in the fields a and
\* b (1 for an empty list), and c = 0.01.
SwitchForm == "Heaviside(c - r)*p(x) + Heaviside(r - c)*q(x)"
SwitchAt == F(10000)
Switch(za, zb) == [form |-> SwitchForm, a |-> za, b |-> zb]
\* the roots of the factor in force at r
FactorRoots(f, rv) == IF FLt(rv, SwitchAt) THEN f.a ELSE f.b
\* line 42: sp.Poly(f_expr, x_sym) raises for an expression not polynomial in x
IsPolyInX(f) ==
    f.form \in PolyForms \cup {SingularForm, FreeSymbolForm, SwitchForm, LinearForm}
\* lines 49-52: complex(c) raises for a coefficient that still holds a symbol
CoeffsNumeric(f) == f.form # FreeSymbolForm
\* lines 47-52: every coefficient converts to a finite complex number
CoeffsFinite(f, rv) == ~(f.form = SingularForm /\ rv = f.a)
\* line 55: np.roots raises LinAlgError for a coefficient nan (line 53 lets it
\* through: np.allclose is False for nan)
np_roots_raises(f, rv) == IsPolyInX(f) /\ ~CoeffsFinite(f, rv)
\* line 47: poly.all_coeffs() at r = r_val, highest degree first, in millionths
Coeffs(f, rv) ==
    CASE f.form = "r + x**2" -> <<Unit, 0, rv[1]>>
      [] f.form = "r*x - x**2" -> <<0 - Unit, rv[1], 0>>
      [] f.form = "r*x - x**3" -> <<0 - Unit, 0, rv[1], 0>>
      [] f.form = "-x**2 - 1" -> <<0 - Unit, 0, 0 - Unit>>
      [] f.form = SingularForm -> <<Unit, 0, rv[1]>>
      [] f.form = LinearForm -> <<rv[1], 0>>
\* line 53: np.allclose(coeffs, 0), that is every |c| <= 1e-8
AllClose0(p) == \A k \in 1 .. Len(p) : p[k] = 0

\* sqrt(q) for q > 0 in millionths, to 1e-4
SqrtMicro(q) == IF q < 20 * Unit THEN ISqrt(q * 100) * 100 ELSE ISqrt(q) * 1000
\* np.roots: leading and trailing zero coefficients are stripped, every
\* stripped trailing zero is a root 0, and the rest gives the eigenvalues of
\* the companion matrix.  The stripped polynomials of PolyForms are a (no
\* root), a*x + c and a*x**2 + c with a whole leading coefficient a.
RECURSIVE StripLeading(_)
StripLeading(p) ==
    IF p # <<>> /\ p[1] = 0 THEN StripLeading(Tail(p)) ELSE p
RECURSIVE TrailingZeros(_)
TrailingZeros(p) ==
    IF p # <<>> /\ Last(p) = 0 THEN 1 + TrailingZeros(SubSeq(p, 1, Len(p) - 1)) ELSE 0
Real(u) == [re |-> F(u), im |-> F(0)]
NpRoots(p) ==
    IF \A k \in 1 .. Len(p) : p[k] = 0 THEN <<>>
    ELSE LET tz == TrailingZeros(p)
             core == StripLeading(SubSeq(p, 1, Len(p) - tz))
             q == (0 - Last(core)) \div (core[1] \div Unit)
             eig ==
               CASE Len(core) = 1 -> <<>>
                 [] Len(core) = 2 -> <<Real(q)>>
                 [] Len(core) = 3 /\ core[2] = 0 ->
                      IF q > 0
                      THEN <<Real(SqrtMicro(q)), Real(0 - SqrtMicro(q))>>
                      ELSE <<[re |-> F(0), im |-> F(SqrtMicro(0 - q))],
                             [re |-> F(0), im |-> F(0 - SqrtMicro(0 - q))]>>
         IN eig \o Repeat(Real(0), tz)

\* line 53 for the expressions of the model: the factor in force of the
\* switch form is monic
CoeffsAllClose0(f, rv) == f.form # SwitchForm /\ AllClose0(Coeffs(f, rv))
\* line 55: np.roots of the coefficients at r; of a monic product of
\* distinct linear factors it returns the roots of the factors
Roots(f, rv) ==
    IF f.form = SwitchForm
    THEN [k \in 1 .. Len(FactorRoots(f, rv)) |-> Real(FactorRoots(f, rv)[k][1])]
    ELSE NpRoots(Coeffs(f, rv))

\* line 56 without its filter (a mutant of RealParts)
RealPartsAll(roots) == [k \in 1 .. Len(roots) |-> roots[k].re]
\* line 56: [float(r.real) for r in roots if abs(r.imag) < 1e-9]
RECURSIVE RealParts(_)
RealParts(roots) ==
    IF roots = <<>> THEN <<>>
    ELSE (IF FLt(FAbs(roots[1].im), ImagTol) THEN <<roots[1].re>> ELSE <<>>)
         \o RealParts(Tail(roots))

\* lines 39-59 returning None also for an empty list of real roots (a mutant
\* of poly_roots_real)
PolyRootsEmptyIsNone(f, rv) ==
    IF ~IsPolyInX(f) \/ ~CoeffsNumeric(f) \/ CoeffsAllClose0(f, rv)
       \/ RealParts(Roots(f, rv)) = <<>>
    THEN [none |-> TRUE, roots |-> <<>>]
    ELSE [none |-> FALSE,
          roots |-> unique_sorted(ClampAll(RealParts(Roots(f, rv))), PolyDedupTol)]
\* lines 39-59: None, or the list of real roots (the window is no argument)
poly_roots_real(f, rv) ==
    IF ~IsPolyInX(f) \/ ~CoeffsNumeric(f) \/ CoeffsAllClose0(f, rv)
    THEN [none |-> TRUE, roots |-> <<>>]
    ELSE [none |-> FALSE,
          roots |-> unique_sorted(ClampAll(RealParts(Roots(f, rv))), PolyDedupTol)]

(* ----------------------------- nsolve_roots ---------------------------- *)
\* the zeros sp.nsolve can converge to: those of the expression that is not
\* polynomial in x; with a second free symbol, or with none (r*x at r = 0 is
\* the number 0), every call of sp.nsolve raises
Zeros(f, rv) == IF f.form = NonPolyForm THEN {f.a, f.b} ELSE {}
\* lines 68 and 75: x_min - 1e-6 <= sol <= x_max + 1e-6
InWindow(sol, lo, hi) ==
    /\ FLe(FSub(lo, WindowMargin), sol)
    /\ FLe(sol, <<hi[1] + WindowMargin[1], hi[2] + WindowMargin[2]>>)
\* a set of floats as a list
RECURSIVE AsList(_)
AsList(S) ==
    IF S = {} THEN <<>>
    ELSE LET v == CHOOSE w \in S : TRUE IN <<v>> \o AsList(S \ {v})
\* lines 62-78: each of the n_seeds starting points gives a zero of f (sp.nsolve
\* converged, at once or from the pair (s, s2)) or nothing (both attempts
\* raised); `found` is the set of zeros some seed converged to.  Lines 79-82:
\* unique_sorted with tol=1e-4, then the clamp to 0.
nsolve_roots(found, lo, hi) ==
    ClampAll(unique_sorted(AsList({z \in found : InWindow(z, lo, hi)}), NsolveDedupTol))
\* what the seeds can converge to
Founds(f, rv) == {S \in SUBSET Zeros(f, rv) : Cardinality(S) <= n_seeds}

(* ---------------------------- find_equilibria -------------------------- *)
\* lines 84-89 when poly_roots_real returns a list
find_equilibria(f, rv, lo, hi) == poly_roots_real(f, rv).roots

NearZero == {<<0, e>> : e \in (0 - MaxNoise) .. MaxNoise}
NearTol == {<<100, e>> : e \in (0 - MaxNoise) .. MaxNoise}
FindExprs ==
    {Poly(form) : form \in PolyForms}
    \cup {Singular(F(10000)), [form |-> FreeSymbolForm, a |-> F(0), b |-> F(0)],
          Poly(LinearForm)}
    \cup {[form |-> NonPolyForm, a |-> a, b |-> b] :
             a \in NearZero \cup {F(0 - Unit)},
             b \in NearTol \cup {F(50), F(Unit), F(3 * Unit)}}
FindRs == {F(k * 10000) : k \in {-900, -100, -1, 0, 1, 100}}
Windows == {<<F(0 - 2 * Unit), F(2 * Unit)>>, <<F(0 - 1000), F(1000)>>}

InitFind ==
    /\ f_expr \in FindExprs
    /\ r_val \in FindRs
    /\ \E w \in Windows : x_min = w[1] /\ x_max = w[2]
    /\ result = <<>>
    /\ pc = "find_call"
    /\ NoTrack /\ NoStab /\ NoDetect /\ NoSweep /\ NoAnalyze

\* lines 86-89, roots is not None
FindPoly ==
    /\ pc = "find_call"
    /\ ~np_roots_raises(f_expr, r_val)
    /\ ~poly_roots_real(f_expr, r_val).none
    /\ result' = [path |-> "poly", roots |-> find_equilibria(f_expr, r_val, x_min, x_max)]
    /\ pc' = "find_done"
    /\ UNCHANGED <<analyzeVars, trackVars, stabVars, findVars, detectVars, sweepVars, r_val>>

\* lines 86-89, roots is None: the numerical fallback
FindNsolve ==
    /\ pc = "find_call"
    /\ poly_roots_real(f_expr, r_val).none
    /\ \E found \in Founds(f_expr, r_val) :
          result' = [path |-> "nsolve", roots |-> nsolve_roots(found, x_min, x_max)]
    /\ pc' = "find_done"
    /\ UNCHANGED <<analyzeVars, trackVars, stabVars, findVars, detectVars, sweepVars, r_val>>

\* line 55 raises and nothing in poly_roots_real or find_equilibria catches it
FindRaise ==
    /\ pc = "find_call"
    /\ np_roots_raises(f_expr, r_val)
    /\ result' = <<"LinAlgError">>
    /\ pc' = "find_raised"
    /\ UNCHANGED <<analyzeVars, trackVars, stabVars, findVars, detectVars, sweepVars, r_val>>

NextFind == FindPoly \/ FindNsolve \/ FindRaise
SpecFind == InitFind /\ [][NextFind]_vars

(* ----------------------- _detect_bifurcation_type ---------------------- *)
\* the labels of lines 579, 600, 606, 610, 612, 614 and 617
Pitchfork == "Bifurcación horquilla (pitchfork)"
Transcritical == "Bifurcación transcrítica"
SaddleNode == "Bifurcación silla-nodo"
Appearing == "Aparición de equilibrios"
Vanishing == "Desaparición de equilibrios"
StabilityChange == "Cambio de estabilidad"
Unclassified == "Bifurcación no clasificada"

RECURSIVE FSum(_)
FSum(s) ==
    IF s = <<>> THEN F(0)
    ELSE <<s[1][1] + FSum(Tail(s))[1], s[1][2] + FSum(Tail(s))[2]>>
\* line 599 without the comparison of the spans (a mutant of Moved)
MovedCenterOnly(eb, ea) ==
    FLt(<<1000 * Len(eb), 0>>, FAbs(FSub(FSum(eb), FSum(ea))))
\* line 599 for lists of one length n: abs(sum_b/n - sum_a/n) > 0.001 is
\* abs(sum_b - sum_a) > 0.001*n, and abs(dist_before - dist_after) > 0.001
Moved(eb, ea) ==
    \/ FLt(<<1000 * Len(eb), 0>>, FAbs(FSub(FSum(eb), FSum(ea))))
    \/ FLt(<<1000, 0>>,
           FAbs(FSub(FAbs(FSub(Last(eb), eb[1])), FAbs(FSub(Last(ea), ea[1])))))

\* lines 573-614 without the saddle-node rule of lines 604-606 (a mutant)
ClassifyNoSaddle(eq_before, eq_after) ==
    LET n_before == Len(eq_before)
        n_after == Len(eq_after)
    IN IF (n_before = 1 /\ n_after = 3) \/ (n_before = 3 /\ n_after = 1)
       THEN Pitchfork
       ELSE IF n_before = n_after /\ n_before >= 2
               /\ Moved(Sorted(eq_before), Sorted(eq_after))
       THEN Transcritical
       ELSE IF n_after > n_before THEN Appearing
       ELSE IF n_after < n_before THEN Vanishing
       ELSE StabilityChange
\* lines 573-614 with the pitchfork rule reading 1 <-> 2 (a mutant)
ClassifyPitchfork12(eq_before, eq_after) ==
    LET n_before == Len(eq_before)
        n_after == Len(eq_after)
    IN IF (n_before = 1 /\ n_after = 2) \/ (n_before = 2 /\ n_after = 1)
       THEN Pitchfork
       ELSE IF n_before = n_after /\ n_before >= 2
               /\ Moved(Sorted(eq_before), Sorted(eq_after))
       THEN Transcritical
       ELSE IF n_before > n_after \/ n_after > n_before THEN SaddleNode
       ELSE StabilityChange
\* lines 573-614 with the saddle-node rule of lines 604-606 moved in front of
\* the pitchfork rule of line 578 (a mutant)
ClassifySaddleFirst(eq_before, eq_after) ==
    LET n_before == Len(eq_before)
        n_after == Len(eq_after)
    IN IF n_before > n_after \/ n_after > n_before
       THEN SaddleNode
       ELSE IF n_before = n_after /\ n_before >= 2
               /\ Moved(Sorted(eq_before), Sorted(eq_after))
       THEN Transcritical
       ELSE StabilityChange
\* lines 573-614 with the saddle-node rule reading a change of exactly 1
\* (a mutant)
ClassifySaddleByOne(eq_before, eq_after) ==
    LET n_before == Len(eq_before)
        n_after == Len(eq_after)
    IN IF (n_before = 1 /\ n_after = 3) \/ (n_before = 3 /\ n_after = 1)
       THEN Pitchfork
       ELSE IF n_before = n_after /\ n_before >= 2
               /\ Moved(Sorted(eq_before), Sorted(eq_after))
       THEN Transcritical
       ELSE IF n_before - n_after = 1 \/ n_after - n_before = 1
       THEN SaddleNode
       ELSE IF n_after > n_before THEN Appearing
       ELSE IF n_after < n_before THEN Vanishing
       ELSE StabilityChange
\* lines 573-614: the label from the equilibria before and after
ClassifyTransition(eq_before, eq_after) ==
    LET n_before == Len(eq_before)
        n_after == Len(eq_after)
    IN IF (n_before = 1 /\ n_after = 3) \/ (n_before = 3 /\ n_after = 1)
       THEN Pitchfork
       ELSE IF n_before = n_after /\ n_before >= 2
               /\ Moved(Sorted(eq_before), Sorted(eq_after))
       THEN Transcritical
       ELSE IF (n_before > n_after /\ n_before - n_after >= 1)
               \/ (n_after > n_before /\ n_after - n_before >= 1)
       THEN SaddleNode
       ELSE IF n_after > n_before THEN Appearing
       ELSE IF n_after < n_before THEN Vanishing
       ELSE StabilityChange

\* lines 562-617 with the exception of a failing root query dropped instead
\* of labelled: the empty label is not appended at line 557 (a mutant)
AnalyzeSwallow(f, at, before, after, lo, hi) ==
    IF \/ np_roots_raises(f, before)
       \/ np_roots_raises(f, at)
       \/ np_roots_raises(f, after)
    THEN ""
    ELSE ClassifyTransition(find_equilibria(f, before, lo, hi),
                            find_equilibria(f, after, lo, hi))
\* lines 562-617 classifying from eq_before and eq_at, the roots at r_bif
\* (a mutant)
AnalyzeAtMidpoint(f, at, before, after, lo, hi) ==
    IF \/ np_roots_raises(f, before)
       \/ np_roots_raises(f, at)
       \/ np_roots_raises(f, after)
    THEN Unclassified
    ELSE ClassifyTransition(find_equilibria(f, before, lo, hi),
                            find_equilibria(f, at, lo, hi))
\* lines 562-617 for an expression polynomial in x: the three fresh root
\* queries of lines 569-571 return lists (eq_at is not used further) or one
\* of them raises, and the except clause of line 616 gives the label of 617
_analyze_bifurcation_at_point(f, at, before, after, lo, hi) ==
    IF \/ np_roots_raises(f, before)
       \/ np_roots_raises(f, at)
       \/ np_roots_raises(f, after)
    THEN Unclassified
    ELSE ClassifyTransition(find_equilibria(f, before, lo, hi),
                            find_equilibria(f, after, lo, hi))

\* line 553 giving r_curr (a mutant of Midpoint)
MidpointLeft(a, b) == a
\* line 553: (r_curr + r_next) / 2; half a millionth is 10000 * 5e-11
Midpoint(a, b) ==
    <<(a[1] + b[1]) \div 2, (a[2] + b[2]) \div 2 + 10000 * ((a[1] + b[1]) % 2)>>

\* line 552 reading len(eq_curr) < len(eq_next) (a mutant of CountsDiffer)
CountsGrow(eq_curr, eq_next) == Len(eq_curr) < Len(eq_next)
\* line 552
CountsDiffer(eq_curr, eq_next) == Len(eq_curr) # Len(eq_next)

\* np.linspace(-h, h, n), in millionths (test_bifurcations.py line 51)
TestSteps == 11
HalfWidths == {50000, 100000}
Linspace(h, n) == [k \in 1 .. n |-> F((0 - h) + ((k - 1) * 2 * h) \div (n - 1))]
Grids == {Linspace(h, n) : h \in HalfWidths, n \in (TestSteps - GridSlack) .. TestSteps}
\* where the singular expression has its nan: between two samples of the
\* test's grid on either side of 0, and at a sample
SingularAt == {F(0 - 5000), F(5000), F(10000)}

\* the tests' set-up: window [-2, 2], a grid, and one of the four polynomial f
\* or the singular one
InitDetect ==
    /\ f_expr \in {Poly(form) : form \in PolyForms} \cup {Singular(c) : c \in SingularAt}
    /\ Rs \in Grids
    /\ x_min = F(0 - 2 * Unit) /\ x_max = F(2 * Unit)
    /\ roots_list = <<>>
    /\ i = 0 /\ bifurcations = <<>>
    /\ pc = "sample"
    /\ stabs_list = <<>> /\ branches = <<>> /\ t = 0 /\ prev_vals = <<>> /\ pairs = <<>>
    /\ NoStab /\ NoSweep /\ NoAnalyze /\ r_val = <<>> /\ result = <<>>

\* test_bifurcations.py lines 54-56 (as bifurcaciones_1.py lines 962-968):
\* the equilibria of one more sample
SampleStep ==
    /\ pc = "sample"
    /\ Len(roots_list) < Len(Rs)
    /\ ~np_roots_raises(f_expr, Rs[Len(roots_list) + 1])
    /\ roots_list' = Append(roots_list,
                            find_equilibria(f_expr, Rs[Len(roots_list) + 1], x_min, x_max))
    /\ pc' = IF Len(roots_list) + 1 = Len(Rs) THEN "detect" ELSE "sample"
    /\ UNCHANGED <<analyzeVars, Rs, stabs_list, branches, t, prev_vals, pairs, stabVars, findVars,
                   detectVars, sweepVars, r_val, result>>

\* the root query of a sample raises (np.roots, line 55): the exception
\* leaves the loop that collects the equilibria, and nothing is detected
SampleRaise ==
    /\ pc = "sample"
    /\ Len(roots_list) < Len(Rs)
    /\ np_roots_raises(f_expr, Rs[Len(roots_list) + 1])
    /\ result' = <<"LinAlgError">>
    /\ pc' = "sample_raised"
    /\ UNCHANGED <<analyzeVars, trackVars, stabVars, findVars, detectVars, sweepVars, r_val>>

\* lines 545-558, one pass of the loop (r_values is Rs, equilibria_list is
\* roots_list)
DetectStep ==
    /\ pc = "detect"
    /\ i < Len(Rs) - 1
    /\ LET mid == Midpoint(Rs[i + 1], Rs[i + 2])
           bif_type == _analyze_bifurcation_at_point(f_expr, mid, Rs[i + 1],
                                                     Rs[i + 2], x_min, x_max)
       IN bifurcations' =
             IF CountsDiffer(roots_list[i + 1], roots_list[i + 2]) /\ bif_type # ""
             THEN Append(bifurcations, <<mid, bif_type>>)
             ELSE bifurcations
    /\ i' = i + 1
    /\ UNCHANGED <<analyzeVars, pc, trackVars, stabVars, findVars, sweepVars, r_val, result>>

\* line 560
DetectReturn ==
    /\ pc = "detect"
    /\ i >= Len(Rs) - 1
    /\ result' = bifurcations
    /\ pc' = "detect_done"
    /\ UNCHANGED <<analyzeVars, trackVars, stabVars, findVars, detectVars, sweepVars, r_val>>

NextDetect == SampleStep \/ SampleRaise \/ DetectStep \/ DetectReturn
SpecDetect == InitDetect /\ [][NextDetect]_vars

(* -------------------- _analyze_bifurcation_at_point -------------------- *)
\* Calls of _analyze_bifurcation_at_point on its own.  The expression is a
\* switch form with any two root lists (so every pair of counts and many
\* positions occur, some less than 0.001 apart between the lists and some
\* more), or the singular form with its nan at one of the three r queried.
AnalyzeVals == {0 - 1002300, 0 - Unit, 0, 400, Unit, 1000400, 1002300}
AnalyzeLists ==
    {Ascending(S) : S \in {Z \in SUBSET AnalyzeVals : Cardinality(Z) <= MaxRoots}}
AnalyzeRs == {F(0 - 50000), F(50000)}

InitAnalyze ==
    /\ f_expr \in {Switch(za, zb) : za \in AnalyzeLists, zb \in AnalyzeLists}
                  \cup {Singular(c) : c \in AnalyzeRs \cup {F(0)}}
    /\ r_before \in AnalyzeRs
    /\ r_after \in AnalyzeRs
    /\ r_bif = Midpoint(r_before, r_after)
    /\ x_min = F(0 - 2 * Unit) /\ x_max = F(2 * Unit)
    /\ pc = "analyze_call"
    /\ result = <<>>
    /\ NoTrack /\ NoStab /\ NoDetect /\ NoSweep /\ r_val = <<>>

\* lines 562-617
AnalyzeCall ==
    /\ pc = "analyze_call"
    /\ result' = <<_analyze_bifurcation_at_point(f_expr, r_bif, r_before, r_after,
                                                 x_min, x_max)>>
    /\ pc' = "analyze_done"
    /\ UNCHANGED <<analyzeVars, trackVars, stabVars, findVars, detectVars, sweepVars,
                   r_val>>

NextAnalyze == AnalyzeCall
SpecAnalyze == InitAnalyze /\ [][NextAnalyze]_vars

(* ------------------------------ auto_steps ----------------------------- *)
\* np.clip without its bounds (a mutant of Clip)
ClipNone(v, lo, hi) == v
\* np.clip(v, lo, hi) of whole numbers
Clip(v, lo, hi) == IF v < lo THEN lo ELSE IF v > hi THEN hi ELSE v
\* lines 99-102: span = max(0.05, r_max - r_min) in millionths;
\* int(100 * span) is the whole part of the positive product
auto_steps(lo, hi) ==
    LET w == hi[1] - lo[1]
        span == IF w < 50000 THEN 50000 ELSE w
        steps == (100 * span) \div Unit
    IN Clip(steps, 151, 801)

\* the ranges auto_steps is called on: r_min a multiple of 0.5, and widths on
\* both sides of 0, of 0.05, of 1.52 and of 8.01
StepRMins == {F(k * (Unit \div 2)) : k \in -4 .. 4}
StepWidths == {0 - Unit, 0, 40000, 50000, 1505000, 1519999, 1520000, 1535000,
               3 * Unit, 8 * Unit, 8009999, 8010000, 8025000, 10 * Unit}

InitSteps ==
    /\ r_min \in StepRMins
    /\ \E w \in StepWidths : r_max = F(r_min[1] + w)
    /\ pc = "steps_call"
    /\ result = <<>>
    /\ f_str = "" /\ r_steps = <<>> /\ last = <<>> /\ err = <<>> /\ first = <<>>
    /\ NoTrack /\ NoStab /\ NoFind /\ NoDetect /\ NoAnalyze /\ r_val = <<>>

\* lines 99-102
AutoStepsCall ==
    /\ pc = "steps_call"
    /\ result' = auto_steps(r_min, r_max)
    /\ pc' = "steps_done"
    /\ UNCHANGED <<analyzeVars, trackVars, stabVars, findVars, detectVars, sweepVars, r_val>>

NextSteps == AutoStepsCall
SpecSteps == InitSteps /\ [][NextSteps]_vars

(* --------------------------- compute_and_plot -------------------------- *)
\* The texts of the entry f(x, r): the polynomial expressions, one with a
\* symbol that is neither x nor r, one whose coefficient is nan at r = 0.01,
\* and one that sympify cannot parse.
UnparsableText == "r +* x"
SingularText == "r + x**2 + floor(Abs(r - 0.01))/(r - 0.01)"
SweepTexts == PolyForms \cup {FreeSymbolForm, SingularText, UnparsableText}
\* lines 941-946: sympify raises for a text that is no expression
Parses(text) == text # UnparsableText
Parse(text) ==
    CASE text \in PolyForms -> Poly(text)
      [] text = FreeSymbolForm -> [form |-> FreeSymbolForm, a |-> F(0), b |-> F(0)]
      [] text = SingularText -> Singular(F(10000))
\* line 948: diff(f_expr, x)
Diff(f) ==
    CASE f.form = "r + x**2" -> "2*x"
      [] f.form = "r*x - x**2" -> "r - 2*x"
      [] f.form = "r*x - x**3" -> "r - 3*x**2"
      [] f.form = "-x**2 - 1" -> "-2*x"
      [] f.form = SingularForm -> "2*x"
      [] f.form = FreeSymbolForm -> "a"

\* lines 950-955: int(text) of a whole number that passes the assert, or
\* auto_steps when int() or the assert raises
StepCount(entry, lo, hi) ==
    IF entry # <<>> /\ entry[1] > 0 THEN entry[1] ELSE auto_steps(lo, hi)
\* line 959: np.linspace(r_min, r_max, n), in millionths
LinspaceFrom(lo, hi, n) ==
    [k \in 1 .. n |->
        IF n = 1 THEN lo ELSE F(lo[1] + ((k - 1) * (hi[1] - lo[1])) \div (n - 1))]

\* line 963 for the texts above: the polynomial path, or the numerical path
\* on which every call of sp.nsolve raises
Equilibria(f, rv, lo, hi) ==
    IF poly_roots_real(f, rv).none THEN nsolve_roots(Zeros(f, rv), lo, hi)
    ELSE find_equilibria(f, rv, lo, hi)
\* lines 964-967
Stabilities(fx, roots, rv) ==
    [k \in 1 .. Len(roots) |-> stability_fx(fx, roots[k], rv).label]
\* an exception leaves the loop of lines 962-968
SampleRaises(f, fx, rv, lo, hi) ==
    \/ np_roots_raises(f, rv)
    \/ \E k \in 1 .. Len(Equilibria(f, rv, lo, hi)) :
          stability_fx(fx, Equilibria(f, rv, lo, hi)[k], rv).raised # "none"

\* lines 161-165: nothing stored yet
Unset ==
    [Rs |-> <<>>, roots_list |-> <<>>, stabs_list |-> <<>>, f |-> "", fx |-> "",
     bifurcations |-> <<>>]
\* what a sweep of r + x**2 over [-1, 1] with 2 samples has stored
Earlier ==
    [Rs |-> <<F(0 - Unit), F(Unit)>>,
     roots_list |-> <<<<F(0 - Unit), F(Unit)>>, <<>>>>,
     stabs_list |-> <<<<"estable", "inestable">>, <<>>>>,
     f |-> "r + x**2", fx |-> "2*x",
     bifurcations |-> <<<<F(0), SaddleNode>>>>]

\* line 542 appending to the events stored by the run before (a mutant)
StartEventsStale == last.bifurcations
\* line 542: bifurcations = []
StartEvents == <<>>

\* the range and step-count entries: the tests' range with a given count, and
\* a range of width 1.5 with no count or a count that fails the assert
SweepEntries ==
    {<<F(0 - 50000), F(50000), <<n>>>> : n \in (TestSteps - GridSlack) .. TestSteps}
    \cup {<<F(0), F(3 * (Unit \div 2)), e>> : e \in {<<>>, <<0>>}}

InitSweep ==
    /\ f_str \in SweepTexts
    /\ \E e \in SweepEntries : r_min = e[1] /\ r_max = e[2] /\ r_steps = e[3]
    /\ x_min = F(0 - 2 * Unit) /\ x_max = F(2 * Unit)
    /\ last \in {Unset, Earlier}
    /\ err = <<>> /\ first = <<>>
    /\ f_expr = [form |-> "", a |-> <<>>, b |-> <<>>]
    /\ pc = "sweep_parse"
    /\ NoTrack /\ NoStab /\ NoDetect /\ NoAnalyze /\ r_val = <<>> /\ result = <<>>

\* lines 941-946, sympify raises: the dialog shows the exception, which quotes
\* the text, and the handler returns
SweepParseError ==
    /\ pc = "sweep_parse"
    /\ ~Parses(f_str)
    /\ err' = <<"No se pudo interpretar f(x, r).", f_str>>
    /\ pc' = "sweep_returned"
    /\ UNCHANGED <<analyzeVars, trackVars, stabVars, findVars, detectVars, r_val, result,
                   f_str, r_min, r_max, r_steps, last, first>>

\* lines 941-961
SweepParse ==
    /\ pc = "sweep_parse"
    /\ Parses(f_str)
    /\ f_expr' = Parse(f_str)
    /\ fx_expr' = Diff(Parse(f_str))
    /\ Rs' = LinspaceFrom(r_min, r_max, StepCount(r_steps, r_min, r_max))
    /\ roots_list' = <<>>
    /\ stabs_list' = <<>>
    /\ pc' = "sweep_sample"
    /\ UNCHANGED <<analyzeVars, branches, t, prev_vals, pairs, x_star, x_min, x_max, detectVars,
                   sweepVars, r_val, result>>

\* lines 962-968, one pass of the loop
SweepSample ==
    /\ pc = "sweep_sample"
    /\ Len(roots_list) < Len(Rs)
    /\ LET rv == Rs[Len(roots_list) + 1]
       IN /\ ~SampleRaises(f_expr, fx_expr, rv, x_min, x_max)
          /\ roots_list' = Append(roots_list, Equilibria(f_expr, rv, x_min, x_max))
          /\ stabs_list' = Append(stabs_list,
                                  Stabilities(fx_expr, Equilibria(f_expr, rv, x_min, x_max), rv))
    /\ UNCHANGED <<analyzeVars, pc, Rs, branches, t, prev_vals, pairs, stabVars, findVars,
                   detectVars, sweepVars, r_val, result>>

\* lines 962-968, a root query or a classification raises: the exception
\* leaves compute_and_plot before anything is stored
SweepRaise ==
    /\ pc = "sweep_sample"
    /\ Len(roots_list) < Len(Rs)
    /\ SampleRaises(f_expr, fx_expr, Rs[Len(roots_list) + 1], x_min, x_max)
    /\ result' = <<"LinAlgError">>
    /\ pc' = "sweep_raised"
    /\ UNCHANGED <<analyzeVars, trackVars, stabVars, findVars, detectVars, sweepVars, r_val>>

\* lines 971-977: the results are stored and track_branches is called
SweepStore ==
    /\ pc = "sweep_sample"
    /\ Len(roots_list) = Len(Rs)
    /\ last' = [last EXCEPT !.Rs = Rs, !.roots_list = roots_list,
                            !.stabs_list = stabs_list, !.f = f_expr.form,
                            !.fx = fx_expr]
    /\ pc' = "track_seed"
    /\ UNCHANGED <<analyzeVars, trackVars, stabVars, findVars, detectVars, r_val, result,
                   f_str, r_min, r_max, r_steps, err, first>>

\* lines 979-989 and 542: the branches are drawn and the detection is called
SweepDetectCall ==
    /\ pc = "track_done"
    /\ i' = 0
    /\ bifurcations' = StartEvents
    /\ pc' = "detect"
    /\ UNCHANGED <<analyzeVars, trackVars, stabVars, findVars, sweepVars, r_val, result>>

\* line 990: self._last_bifurcations = bifurcations, and the handler ends
SweepFinish ==
    /\ pc = "detect_done"
    /\ last' = [last EXCEPT !.bifurcations = result]
    /\ pc' = "sweep_done"
    /\ UNCHANGED <<analyzeVars, trackVars, stabVars, findVars, detectVars, r_val, result,
                   f_str, r_min, r_max, r_steps, err, first>>

\* what a run leaves: how it ended and its five results
Outcome ==
    [pc |-> pc, Rs |-> Rs, roots_list |-> roots_list, stabs_list |-> stabs_list,
     branches |-> branches, bifurcations |-> bifurcations, err |-> err]

\* the handler is invoked once more with the entries as they are; its locals
\* are new
SweepAgain ==
    /\ pc \in {"sweep_done", "sweep_returned", "sweep_raised"}
    /\ first = <<>>
    /\ first' = <<Outcome>>
    /\ Rs' = <<>> /\ roots_list' = <<>> /\ stabs_list' = <<>> /\ branches' = <<>>
    /\ t' = 0 /\ prev_vals' = <<>> /\ pairs' = <<>>
    /\ i' = 0 /\ bifurcations' = <<>>
    /\ f_expr' = [form |-> "", a |-> <<>>, b |-> <<>>]
    /\ fx_expr' = ""
    /\ err' = <<>> /\ result' = <<>>
    /\ pc' = "sweep_parse"
    /\ UNCHANGED <<analyzeVars, x_star, x_min, x_max, r_val, f_str, r_min, r_max, r_steps, last>>

NextSweep ==
    \/ SweepParseError \/ SweepParse \/ SweepSample \/ SweepRaise \/ SweepStore
    \/ TrackSeed \/ TrackStep \/ TrackFinish
    \/ SweepDetectCall \/ DetectStep \/ DetectReturn
    \/ SweepFinish \/ SweepAgain
SpecSweep == InitSweep /\ [][NextSweep]_vars

(* ------------------------------ claims --------------------------------- *)
\* C1: a branch whose x is NaN at some step after its birth stays NaN at
\* every later step (a dead branch is never matched again).
C1_DeadStaysDead ==
    \A k \in 1 .. Len(branches) :
        \A ta, tb, tc \in 1 .. Len(branches[k].x) :
            (ta < tb /\ tb < tc /\ ~IsNaN(branches[k].x[ta]) /\ IsNaN(branches[k].x[tb]))
                => IsNaN(branches[k].x[tc])

\* C10: every Branch returned by track_branches has r, x and stab of length
\* T = len(Rs), and r is the sample grid.
C10_EqualLengths ==
    pc = "track_done" =>
        \A k \in 1 .. Len(branches) :
            /\ Len(branches[k].x) = Len(Rs)
            /\ Len(branches[k].stab) = Len(Rs)
            /\ branches[k].r = Rs
\* a run with a birth after the first sample and a death has returned
C10_Witness ==
    /\ pc = "track_done"
    /\ Len(Rs) >= 3
    /\ \E k \in 1 .. Len(branches) : IsNaN(branches[k].x[1])
    /\ \E k \in 1 .. Len(branches) : IsNaN(Last(branches[k].x))
    /\ \E k \in 1 .. Len(Rs) : roots_list[k] = <<>>

\* C6: stability_fx never fails: no exception reaches the caller, whatever
\* f_x, x* and r are.
C6_NeverRaises == pc = "stab_done" => result.raised = "none"

\* C7: the label follows the sign of v = float(f_x(x*, r)): negative stable,
\* positive unstable, zero neutral, each with raw value v; non-finite v gives
\* undefined with raw value NaN; r - 2x at r = 1 is unstable with slope 1 at
\* x* = 0 and stable with slope -1 at x* = 1.
C7_LabelBySign ==
    (pc = "stab_done" /\ result.raised = "none") =>
        LET v == ToFloat(SympyValue(fx_expr, x_star, r_val))
        IN /\ (IsFinite(v) /\ v[1] < 0) => (result.label = "estable" /\ result.val = v)
           /\ (IsFinite(v) /\ v[1] > 0) => (result.label = "inestable" /\ result.val = v)
           /\ (IsFinite(v) /\ v[1] = 0 /\ v[2] = 0) =>
                  (result.label = "neutra" /\ result.val = v)
           /\ ~IsFinite(v) => (result.label = "desconocida" /\ result.val = NaN)
           /\ (fx_expr = "r - 2*x" /\ r_val = F(Unit) /\ x_star = F(0)) =>
                  (result.label = "inestable" /\ result.val = F(Unit))
           /\ (fx_expr = "r - 2*x" /\ r_val = F(Unit) /\ x_star = F(Unit)) =>
                  (result.label = "estable" /\ result.val = F(0 - Unit))
\* the second case of the test: f_x = r - 2x, r = 1, x* = 1 was classified
C7_Witness ==
    /\ pc = "stab_done"
    /\ fx_expr = "r - 2*x" /\ r_val = F(Unit) /\ x_star = F(Unit)
    /\ result.raised = "none" /\ result.label = "estable"

\* C8: every value find_equilibria returns lies in the search window
\* [x_min, x_max] (up to the 1e-6 margin), on the polynomial path and on the
\* numerical path alike.
C8_RootsInWindow ==
    pc = "find_done" =>
        \A k \in 1 .. Len(result.roots) : InWindow(result.roots[k], x_min, x_max)

\* C9: the list find_equilibria returns is ascending, and consecutive roots
\* differ by more than the dedup tolerance of the path used (1e-6 polynomial,
\* 1e-4 numerical), also after the clamp of near-zero values to 0.
C9_SeparatedByTol ==
    pc = "find_done" =>
        \A k \in 1 .. Len(result.roots) - 1 :
            FLt(IF result.path = "poly" THEN PolyDedupTol ELSE NsolveDedupTol,
                FSub(result.roots[k + 1], result.roots[k]))

\* an event of the given type with |r_bif| < 0.02
NearZeroEvent(ev, type) == FLt(FAbs(ev[1]), <<20000, 0>>) /\ ev[2] = type

\* C2: for f = r*x - x**2 swept around r = 0 the detection reports an event
\* with |r_bif| < 0.02 whose type is transcritical.
C2_TranscriticalFound ==
    (pc = "detect_done" /\ f_expr.form = "r*x - x**2") =>
        \E k \in 1 .. Len(result) : NearZeroEvent(result[k], Transcritical)

\* C3 as stated: for f = r + x**2 swept around r = 0 the detection reports
\* exactly one event, within 0.02 of 0 and of type saddle-node.
C3_ExactlyOneSaddleNode ==
    (pc = "detect_done" /\ f_expr.form = "r + x**2") =>
        Len(result) = 1 /\ NearZeroEvent(result[1], SaddleNode)
\* C3 as amended: for f = r + x**2 swept around r = 0 the detection reports
\* one or two events, two when r = 0 is itself a sample (counts 2, 1, 0);
\* every event is within 0.02 of 0 and of type saddle-node.
C3_OneOrTwoSaddleNodes ==
    (pc = "detect_done" /\ f_expr.form = "r + x**2") =>
        /\ Len(result) \in {1, 2}
        /\ (\E k \in 1 .. Len(Rs) : Rs[k] = F(0)) => Len(result) = 2
        /\ \A k \in 1 .. Len(result) : NearZeroEvent(result[k], SaddleNode)
\* the test's grid linspace(-0.05, 0.05, 11) was swept for f = r + x**2
C3_Witness ==
    /\ pc = "detect_done" /\ f_expr.form = "r + x**2"
    /\ Rs = Linspace(50000, TestSteps)
    /\ Len(result) = 2

\* C4: for f = r*x - x**3 swept around r = 0 the detection reports an event
\* with |r_bif| < 0.02 whose type is pitchfork.
C4_PitchforkFound ==
    (pc = "detect_done" /\ f_expr.form = "r*x - x**3") =>
        \E k \in 1 .. Len(result) : NearZeroEvent(result[k], Pitchfork)
\* the test's grid was swept for f = r*x - x**3
C4_Witness ==
    /\ pc = "detect_done" /\ f_expr.form = "r*x - x**3"
    /\ Rs = Linspace(50000, TestSteps)
    /\ Len(result) = 1

\* C5: the detection reports one event for each adjacent sample pair whose
\* equilibrium counts differ, at that pair's midpoint and in order, and none
\* for a pair of equal counts; with all counts equal the list is empty.
DifferingPairs(n) == {k \in 1 .. n : Len(roots_list[k]) # Len(roots_list[k + 1])}
C5_OneEventPerChange ==
    pc \in {"detect", "detect_done"} =>
        LET changed == DifferingPairs(i)
        IN /\ Len(bifurcations) = Cardinality(changed)
           /\ \A k \in changed :
                 bifurcations[Cardinality({j \in changed : j <= k})][1]
                     = Midpoint(Rs[k], Rs[k + 1])
           /\ (changed = {}) => bifurcations = <<>>
\* a pass over a sweep with changing counts has returned its events, and so
\* has a pass over a sweep whose sets are all empty
C5_Witness ==
    /\ pc = "detect_done"
    /\ \/ DifferingPairs(Len(Rs) - 1) # {} /\ Len(result) = Cardinality(DifferingPairs(Len(Rs) - 1))
       \/ (f_expr.form = "-x**2 - 1" /\ \A k \in 1 .. Len(Rs) : roots_list[k] = <<>>)

\* membership of a float in a list
InList(v, s) == \E n \in 1 .. Len(s) : s[n] = v
\* the largest |b - a| over the roots a at one sample and b at the next
LargestJump(ra, rb, d) ==
    \E n \in 1 .. Len(ra) : \E q \in 1 .. Len(rb) : FLe(d, FAbsDiff(ra[n], rb[q]))

\* C11: where a branch is non-NaN at two adjacent samples, both values are
\* roots found at those samples, the step is no larger than the largest jump
\* between the two root lists, and every root strictly nearer to the branch
\* than the one it moved to went to a branch that was live and at least as
\* near to that root (the branch never passes over a nearer available root).
C11_BranchContinuity ==
    \A k \in 1 .. Len(branches) :
        \A ta \in 1 .. Len(branches[k].x) - 1 :
            LET xa == branches[k].x[ta]
                xb == branches[k].x[ta + 1]
            IN (~IsNaN(xa) /\ ~IsNaN(xb)) =>
                  /\ InList(xa, roots_list[ta])
                  /\ InList(xb, roots_list[ta + 1])
                  /\ LargestJump(roots_list[ta], roots_list[ta + 1], FAbsDiff(xa, xb))
                  /\ \A n \in 1 .. Len(roots_list[ta + 1]) :
                        LET y == roots_list[ta + 1][n]
                        IN FLt(FAbsDiff(xa, y), FAbsDiff(xa, xb)) =>
                              \E o \in 1 .. Len(branches) :
                                  /\ o # k
                                  /\ branches[o].x[ta + 1] = y
                                  /\ ~IsNaN(branches[o].x[ta])
                                  /\ FLe(FAbsDiff(branches[o].x[ta], y), FAbsDiff(xa, y))

\* C20: in every pass the matching is greedy by global minimum: each committed
\* pair joins a live branch to a root, and its distance is no larger than that
\* of any pair of a live branch and a new root both unmatched when it is
\* committed; the first committed pair is the closest pair of the pass.
Committed(n) == {pairs[q] : q \in 1 .. n}
C20_GreedyGlobalMinimum ==
    pc = "track_loop" =>
        \A n \in 1 .. Len(pairs) :
            LET d == FAbsDiff(prev_vals[pairs[n][1]], roots_list[t][pairs[n][2]])
            IN /\ ~IsNaN(d)
               /\ \A k \in 1 .. Len(prev_vals) : \A j \in 1 .. Len(roots_list[t]) :
                     (/\ ~IsNaN(prev_vals[k])
                      /\ \A c \in Committed(n - 1) : c[1] # k /\ c[2] # j)
                        => FLe(d, FAbsDiff(prev_vals[k], roots_list[t][j]))

\* C12: every reported event has r_bif equal to the midpoint of two adjacent
\* samples whose equilibrium counts differ; r_bif lies strictly between these
\* two samples and coincides with no sample.
IsMidpointOf(m, a, b) ==
    \E q \in {0, 1} : m[1] * 2 + q = a[1] + b[1] /\ m[2] * 2 = a[2] + b[2] + 20000 * q
C12_MidpointBetweenSamples ==
    pc \in {"detect", "detect_done"} =>
        \A k \in 1 .. Len(bifurcations) :
            /\ \E j \in 1 .. Len(Rs) - 1 :
                  /\ Len(roots_list[j]) # Len(roots_list[j + 1])
                  /\ IsMidpointOf(bifurcations[k][1], Rs[j], Rs[j + 1])
                  /\ \/ FLt(Rs[j], bifurcations[k][1]) /\ FLt(bifurcations[k][1], Rs[j + 1])
                     \/ FLt(Rs[j + 1], bifurcations[k][1]) /\ FLt(bifurcations[k][1], Rs[j])
            /\ \A j \in 1 .. Len(Rs) : Rs[j] # bifurcations[k][1]
\* a pass over r*x - x**2 on a grid that samples r = 0 has returned its two
\* events, one on either side of 0
C12_Witness ==
    /\ pc = "detect_done" /\ f_expr.form = "r*x - x**2"
    /\ Len(result) = 2
    /\ FLt(result[1][1], F(0)) /\ FLt(F(0), result[2][1])

\* C13: when the analysis of a candidate pair raises, that event is reported
\* with the label "Bifurcación no clasificada", the pass goes on to the end,
\* and every other candidate pair has the event it has for f = r + x**2, whose
\* root queries never fail.
AnalysisRaises(k) ==
    \/ np_roots_raises(f_expr, Rs[k])
    \/ np_roots_raises(f_expr, Midpoint(Rs[k], Rs[k + 1]))
    \/ np_roots_raises(f_expr, Rs[k + 1])
C13_FailureIsolated ==
    (pc = "detect_done" /\ f_expr.form = SingularForm) =>
        LET changed == DifferingPairs(Len(Rs) - 1)
            event(k) == result[Cardinality({j \in changed : j <= k})]
        IN /\ Len(result) = Cardinality(changed)
           /\ \A k \in changed :
                 /\ event(k)[1] = Midpoint(Rs[k], Rs[k + 1])
                 /\ AnalysisRaises(k) => event(k)[2] = Unclassified
                 /\ ~AnalysisRaises(k) =>
                       event(k)[2] = ClassifyTransition(
                           find_equilibria(Poly("r + x**2"), Rs[k], x_min, x_max),
                           find_equilibria(Poly("r + x**2"), Rs[k + 1], x_min, x_max))
\* the analysis of the first candidate pair raised and the pass still
\* returned both events, the second one classified
C13_Witness ==
    /\ pc = "detect_done" /\ f_expr.form = SingularForm
    /\ Len(result) = 2
    /\ result[1][2] = Unclassified
    /\ result[2][2] = SaddleNode

\* f(., r) has no real zero that find_equilibria can return: the polynomial
\* has none, or no zero lies in the window, or sp.nsolve fails at every seed
NoRealRoot(f, rv, lo, hi) ==
    CASE f.form \in {"r + x**2", SingularForm} -> rv[1] > 0
      [] f.form = "-x**2 - 1" -> TRUE
      [] f.form = FreeSymbolForm -> TRUE
      [] f.form = NonPolyForm -> \A z \in {f.a, f.b} : ~InWindow(z, lo, hi)
      [] OTHER -> FALSE

NearSquare(z, q) ==
    LET zz == z[1] \div 100
        d == zz * zz - q * 100
    IN (IF d < 0 THEN 0 - d ELSE d) <= 2 * (IF zz < 0 THEN 0 - zz ELSE zz) + 1
IsRoot(f, rv, z) ==
    CASE f.form \in {"r + x**2", SingularForm} -> NearSquare(z, 0 - rv[1])
      [] f.form = "r*x - x**2" -> z = F(0) \/ z = F(rv[1])
      [] f.form = "r*x - x**3" -> z = F(0) \/ (rv[1] > 0 /\ NearSquare(z, rv[1]))
      [] f.form = LinearForm -> z = F(0)
      [] OTHER -> FALSE
\* the number of distinct real roots, from the discriminant
RealRootCount(f, rv) ==
    CASE f.form \in {"r + x**2", SingularForm} ->
            IF rv[1] < 0 THEN 2 ELSE IF rv[1] = 0 THEN 1 ELSE 0
      [] f.form = "r*x - x**2" -> IF rv[1] = 0 THEN 1 ELSE 2
      [] f.form = "r*x - x**3" -> IF rv[1] > 0 THEN 3 ELSE 1
      [] f.form = LinearForm -> 1
      [] OTHER -> 0

\* C16: for f = x**2 + r the call at r = -1 returns exactly two roots, within
\* 0.01 of -1 and of 1, ascending, and at r = 1 the empty list; on the
\* polynomial path the list is strictly ascending, holds only real roots of
\* the polynomial at r, and has as many entries as it has distinct real roots.
C16_DistinctRealRoots ==
    (pc = "find_done" /\ result.path = "poly") =>
        /\ Len(result.roots) = RealRootCount(f_expr, r_val)
        /\ \A k \in 1 .. Len(result.roots) : IsRoot(f_expr, r_val, result.roots[k])
        /\ \A k \in 1 .. Len(result.roots) - 1 : FLt(result.roots[k], result.roots[k + 1])
        /\ (f_expr.form = "r + x**2" /\ r_val = F(0 - Unit)) =>
              /\ Len(result.roots) = 2
              /\ FLt(FAbsDiff(result.roots[1], F(0 - Unit)), F(10000))
              /\ FLt(FAbsDiff(result.roots[2], F(Unit)), F(10000))
        /\ (f_expr.form = "r + x**2" /\ r_val = F(Unit)) => result.roots = <<>>
\* the call of the test at r = -1 has returned
C16_Witness ==
    /\ pc = "find_done" /\ result.path = "poly"
    /\ f_expr.form = "r + x**2" /\ r_val = F(0 - Unit)
    /\ Len(result.roots) = 2

\* C18: auto_steps(r_min, r_max) lies in 151 .. 801, is 151 for every width
\* below 1.52 (also for r_max <= r_min), is 801 for every width of 8.01 or
\* more, equals the whole part of 100 * max(0.05, width) in between, and is
\* non-decreasing in the width.
C18_StepsClipped ==
    pc = "steps_done" =>
        LET w == r_max[1] - r_min[1]
        IN /\ result \in 151 .. 801
           /\ w < 1520000 => result = 151
           /\ w >= 8010000 => result = 801
           /\ (w >= 1520000 /\ w < 8010000) =>
                 (result * 10000 <= w /\ w < (result + 1) * 10000)
           /\ \A lo \in StepRMins : \A v \in StepWidths :
                 v <= w => auto_steps(lo, F(lo[1] + v)) <= result
\* the step count of a range of width 3 was derived: 300 samples
C18_Witness ==
    /\ pc = "steps_done"
    /\ r_max[1] - r_min[1] = 3 * Unit
    /\ result = 300

\* the text cannot be parsed, or holds a free symbol other than x and r
Malformed(text) == text \in {UnparsableText, FreeSymbolForm}

\* C14: for a malformed expression compute_and_plot stops at its entry: it
\* never gets past parsing, it shows an error that names the text, no root
\* list is built, and the stored results stay what they were.
C14_MalformedFailsFast ==
    Malformed(f_str) =>
        /\ pc \in {"sweep_parse", "sweep_returned"}
        /\ pc = "sweep_returned" => (err # <<>> /\ err[2] = f_str)
        /\ roots_list = <<>>
        /\ last \in {Unset, Earlier}

C19_NoSideEffects ==
    [][/\ pc \in {"track_seed", "track_loop"} =>
              (Rs' = Rs /\ roots_list' = roots_list /\ stabs_list' = stabs_list)
       /\ pc = "detect" =>
              (/\ Rs' = Rs /\ roots_list' = roots_list /\ stabs_list' = stabs_list
               /\ last' = last /\ branches' = branches)]_vars
\* a sweep with three branches and an event has been tracked and scanned, and
\* the stored lists are still the lists of the sweep
C19_Witness ==
    /\ pc = "sweep_done"
    /\ Len(branches) = 3 /\ bifurcations # <<>>
    /\ last.Rs = Rs /\ last.roots_list = roots_list /\ last.stabs_list = stabs_list

\* the branches that hold the value v at sample n, and the places of v in
\* the root list of sample n
Holders(n, v) == {k \in 1 .. Len(branches) : branches[k].x[n] = v}
Places(n, v) == {j \in 1 .. Len(roots_list[n]) : roots_list[n][j] = v}

\* C21: at every sample processed so far, every root of the sample is the x
\* of as many branches as it has places in the root list (one), every non-NaN
\* x of a branch is a root of the sample, and the stab stored with it is the
\* label at the place of that root.
C21_EachRootInOneBranch ==
    pc \in {"track_loop", "track_done"} =>
        \A n \in 1 .. t :
            /\ \A j \in 1 .. Len(roots_list[n]) :
                  Cardinality(Holders(n, roots_list[n][j]))
                      = Cardinality(Places(n, roots_list[n][j]))
            /\ \A k \in 1 .. Len(branches) :
                  ~IsNaN(branches[k].x[n]) =>
                      \E j \in 1 .. Len(roots_list[n]) :
                          /\ roots_list[n][j] = branches[k].x[n]
                          /\ stabs_list[n][j] = branches[k].stab[n]
\* a run has returned in which a step matched two branches and started a
\* third
C21_Witness ==
    /\ pc = "track_done" /\ Len(Rs) >= 2
    /\ Len(roots_list[1]) = 2 /\ Len(roots_list[2]) = 3
    /\ Len(branches) >= 3
    /\ ~IsNaN(branches[1].x[2]) /\ ~IsNaN(branches[2].x[2])
    /\ IsNaN(branches[3].x[1]) /\ ~IsNaN(branches[3].x[2])

\* s is the list g with one more entry
OneMore(g, s) == Len(s) = Len(g) + 1 /\ SubSeq(s, 1, Len(g)) = g
\* the roots of sample n that no branch up to number nb holds in bs
Unheld(bs, nb, n) ==
    {j \in 1 .. Len(roots_list[n]) :
        \A k \in 1 .. nb : bs[k].x[n] # roots_list[n][j]}

\* C22: the seeding creates one branch per root of the first sample, in the
\* order of the roots; a pass of the loop keeps every existing branch at its
\* place, one entry longer, and appends one branch per root it left
\* unmatched, NaN/None at every earlier index and the root with its label at
\* the index of the pass; the final padding adds and removes no branch.
C22_BranchesOnlyBorn ==
    [][/\ pc = "track_seed" =>
              /\ Len(branches') = Len(roots_list[1])
              /\ \A k \in 1 .. Len(branches') :
                    /\ branches'[k].x = <<roots_list[1][k]>>
                    /\ branches'[k].stab = <<stabs_list[1][k]>>
       /\ (pc = "track_loop" /\ t' = t + 1) =>
              /\ \A k \in 1 .. Len(branches) :
                    /\ OneMore(branches[k].x, branches'[k].x)
                    /\ OneMore(branches[k].stab, branches'[k].stab)
              /\ Len(branches') =
                    Len(branches) + Cardinality(Unheld(branches', Len(branches), t'))
              /\ \A k \in Len(branches) + 1 .. Len(branches') :
                    \E j \in Unheld(branches', Len(branches), t') :
                        /\ branches'[k].x = Repeat(NaN, t) \o <<roots_list[t'][j]>>
                        /\ branches'[k].stab = Repeat("None", t) \o <<stabs_list[t'][j]>>
       /\ (pc = "track_loop" /\ t' = t) =>
              /\ Len(branches') = Len(branches)
              /\ \A k \in 1 .. Len(branches) :
                    branches'[k].x = branches[k].x /\ branches'[k].stab = branches[k].stab
      ]_vars
\* a pass has kept a matched branch and started two branches after it
C22_Witness ==
    /\ pc = "track_loop" /\ t = 2
    /\ Len(roots_list[1]) = 1 /\ Len(branches) = 3
    /\ ~IsNaN(branches[1].x[2])
    /\ IsNaN(branches[2].x[1]) /\ IsNaN(branches[3].x[1])

\* the (branch, root) pairs of the pass just made whose distance is the
\* smallest of the pass
Closest ==
    {c \in (1 .. Len(prev_vals)) \X (1 .. Len(roots_list[t])) :
        LET d == FAbsDiff(prev_vals[c[1]], roots_list[t][c[2]])
        IN /\ ~IsNaN(d)
           /\ \A e \in (1 .. Len(prev_vals)) \X (1 .. Len(roots_list[t])) :
                 LET g == FAbsDiff(prev_vals[e[1]], roots_list[t][e[2]])
                 IN ~IsNaN(g) => FLe(d, g)}

\* C26: when several pairs of a pass share the smallest distance, the pair
\* committed first is the one of them with the lowest branch index and, among
\* those, the lowest root index.
C26_TiesByIterationOrder ==
    (pc = "track_loop" /\ t >= 2 /\ Cardinality(Closest) >= 2) =>
        /\ pairs # <<>>
        /\ pairs[1] \in Closest
        /\ \A c \in Closest : c = pairs[1] \/ FlatBefore(pairs[1], c)

\* the branches live before the pass just made that it left unmatched, and
\* the roots of the pass that it left unmatched
LiveUnmatched == {k \in 1 .. Len(prev_vals) :
                     ~IsNaN(prev_vals[k]) /\ \A q \in 1 .. Len(pairs) : pairs[q][1] # k}
RootsUnmatched == {j \in 1 .. Len(roots_list[t]) : \A q \in 1 .. Len(pairs) : pairs[q][2] # j}

\* C29: after the matching of a pass, a live branch left unmatched and a new
\* root left unmatched never occur together: a branch is born in a pass only
\* if every branch live before it was matched, and a live branch dies in a
\* pass only if every root of the pass was matched.
C29_NoLivePairLeft ==
    (pc = "track_loop" /\ t >= 2) =>
        /\ LiveUnmatched = {} \/ RootsUnmatched = {}
        /\ (\E k \in 1 .. Len(branches) : IsNaN(branches[k].x[t - 1]) /\ k > Len(prev_vals))
              => LiveUnmatched = {}
        /\ (\E k \in 1 .. Len(prev_vals) : ~IsNaN(prev_vals[k]) /\ IsNaN(branches[k].x[t]))
              => RootsUnmatched = {}
\* a pass with a dead branch among the previous ones has started a branch,
\* and a pass has let a live branch die
C29_Witness ==
    /\ pc = "track_loop" /\ t = 3
    /\ \E k \in 1 .. Len(prev_vals) : IsNaN(prev_vals[k])
    /\ RootsUnmatched # {}
    /\ \E k \in 1 .. Len(branches) : ~IsNaN(branches[k].x[1]) /\ IsNaN(branches[k].x[2])

\* C30: in every branch, while it is built and when it is returned, x and
\* stab have one length and x[n] is NaN exactly where stab[n] is None.
C30_AbsenceConsistent ==
    \A k \in 1 .. Len(branches) :
        /\ Len(branches[k].x) = Len(branches[k].stab)
        /\ \A n \in 1 .. Len(branches[k].x) :
              IsNaN(branches[k].x[n]) <=> branches[k].stab[n] = "None"
\* a run has returned a branch that died and was matched again and a branch
\* born at the last sample
C30_Witness ==
    /\ pc = "track_done" /\ Len(Rs) = 3
    /\ \E k \in 1 .. Len(branches) :
          ~IsNaN(branches[k].x[1]) /\ IsNaN(branches[k].x[2]) /\ ~IsNaN(branches[k].x[3])
    /\ \E k \in 1 .. Len(branches) :
          IsNaN(branches[k].x[1]) /\ IsNaN(branches[k].x[2]) /\ ~IsNaN(branches[k].x[3])

\* a call of _analyze_bifurcation_at_point on a switch form has returned: the
\* three root queries returned their lists
Analyzed == pc = "analyze_done" /\ f_expr.form = SwitchForm
\* the roots of the expression at r_before and at r_after, ascending
RootsBefore == FactorRoots(f_expr, r_before)
RootsAfter == FactorRoots(f_expr, r_after)
OneAndThree ==
    \/ Len(RootsBefore) = 1 /\ Len(RootsAfter) = 3
    \/ Len(RootsBefore) = 3 /\ Len(RootsAfter) = 1

\* C23: with 1 and 3 (or 3 and 1) equilibria before and after, wherever they
\* lie, the label is pitchfork, never saddle-node or one of the fallbacks.
C23_PitchforkOneThree ==
    (Analyzed /\ OneAndThree) => result[1] = Pitchfork
\* a call with three roots before and one after, all four at different
\* places, has returned
C23_Witness ==
    /\ Analyzed /\ Len(RootsBefore) = 3 /\ Len(RootsAfter) = 1
    /\ \A k \in 1 .. 3 : RootsBefore[k] # RootsAfter[1]
    /\ result[1] = Pitchfork

\* C24: with different counts before and after, other than 1 and 3, the
\* label is saddle-node whatever the size of the change.
C24_SaddleNodeAnyChange ==
    (Analyzed /\ Len(RootsBefore) # Len(RootsAfter) /\ ~OneAndThree)
        => result[1] = SaddleNode
\* a call with no root before and four after has returned
C24_Witness ==
    /\ Analyzed /\ Len(RootsBefore) = 0 /\ Len(RootsAfter) = 4
    /\ result[1] = SaddleNode

\* the sum of a list of whole millionths
RECURSIVE Total(_)
Total(s) == IF s = <<>> THEN 0 ELSE s[1][1] + Total(Tail(s))
Dist(a, b) == IF a < b THEN b - a ELSE a - b
\* the means of two lists of one length n >= 2 differ by more than 0.001, or
\* their spans do
MeanOrSpanMoved(eb, ea) ==
    \/ Dist(Total(eb), Total(ea)) > 1000 * Len(eb)
    \/ Dist(Last(eb)[1] - eb[1][1], Last(ea)[1] - ea[1][1]) > 1000

\* C25: with equal counts before and after the label is transcritical when
\* the count is at least 2 and the mean or the span of the positions differs
\* by more than 0.001, and stability-change otherwise.
C25_TranscriticalRule ==
    (Analyzed /\ Len(RootsBefore) = Len(RootsAfter)) =>
        IF Len(RootsBefore) >= 2 /\ MeanOrSpanMoved(RootsBefore, RootsAfter)
        THEN result[1] = Transcritical
        ELSE result[1] = StabilityChange
\* a call with two roots on either side, of one mean and spans 0.0046 apart,
\* has returned transcritical
C25_Witness ==
    /\ Analyzed
    /\ RootsBefore = <<F(0 - Unit), F(Unit)>>
    /\ RootsAfter = <<F(0 - 1002300), F(1002300)>>
    /\ result[1] = Transcritical

\* poly_roots_real returns None: the expression is not polynomial in x, a
\* coefficient keeps a symbol after r is substituted, or every coefficient
\* is 0 at r
PolyPathFails(f, rv) ==
    \/ f.form \in {NonPolyForm, FreeSymbolForm}
    \/ f.form = LinearForm /\ rv = F(0)

\* C27: find_equilibria returns the result of the numerical fallback exactly
\* when the polynomial path returned None, and the list of the polynomial
\* path otherwise; a polynomial without real roots gives the empty list from
\* the polynomial path.
C27_PolynomialFirst ==
    pc = "find_done" =>
        /\ result.path = "nsolve" <=> PolyPathFails(f_expr, r_val)
        /\ result.path = "poly" <=> ~PolyPathFails(f_expr, r_val)
        /\ (f_expr.form = "-x**2 - 1" \/ (f_expr.form = "r + x**2" /\ r_val[1] > 0))
              => (result.path = "poly" /\ result.roots = <<>>)
\* the call for -x**2 - 1 has returned the empty list of the polynomial path
C27_Witness ==
    /\ pc = "find_done"
    /\ f_expr.form = "-x**2 - 1"
    /\ result = [path |-> "poly", roots |-> <<>>]

====
